---- MODULE Spec2Model ----
(***************************************************************************)
(* revent: a synchronous publish/subscribe hub.  The model covers the      *)
(* Manager (permission graph and construction-scope stack), the Topic      *)
(* operations of topic.rs and the generated subscribe of lib.rs, under     *)
(* four specifications:                                                    *)
(*   Spec         the hub of tests::hub_dual_recursion (channels a and b); *)
(*   SpecSorting  the hub, handler and comparator of tests::sorting;       *)
(*   SpecTwoHubs  two hubs whose channels are called from each other's     *)
(*                scopes;                                                  *)
(*   SpecNested   builds that subscribe further handlers through their     *)
(*                Nodes.                                                   *)
(***************************************************************************)
EXTENDS Naturals, Integers, Sequences, FiniteSets, TLC

\* Bounds of the model.
MaxSubs == 2
MaxDepth == 3

\* The handler names (T::name()) and the instance identities.
HandlerNames == <<"X", "Y", "Z", "W", "V", "U", "T", "S", "R", "Q", "P", "O">>
Ids == 1..MaxSubs

VARIABLES
    manager,      \* Topic.manager: channel -> the Manager of the hub it belongs to
    subscribers,  \* Topic.subscribers: channel -> sequence of instances
    node,         \* instance -> the Node it holds: channel -> Topic value
    value,        \* instance -> the input its build stored (Handler(i32))
    mgr,          \* the Manager: [graph, active]
    stack,        \* the call stack: build and emit frames, innermost last
    nextId,       \* the next instance identity (the Rc's address)
    result,       \* the outcome of the last finished operation
    unregistered  \* history: the <<channel, handle>> pairs unregister removed

vars == <<manager, subscribers, node, value, mgr, stack, nextId, result, unregistered>>

\* The channels of the hubs under test.
Chan == DOMAIN manager

\* The Managers, one per hub.
Hubs == {manager[c] : c \in Chan}

\* hub! { X { a: A, b: B } }: one hub with two channels (tests::hub_dual_recursion).
HubDual == [c \in {"a", "b"} |-> 1]

----------------------------------------------------------------------------
\* Sequence helpers.

Range(s) == {s[i] : i \in 1..Len(s)}

Last(s) == s[Len(s)]

\* The fields of the Node f (the values of a function).
Fields(f) == {f[x] : x \in DOMAIN f}

Front(s) == SubSeq(s, 1, Len(s) - 1)

\* The injective sequences over S: the listen lists a node! block can declare.
RECURSIVE Perms(_)
Perms(S) ==
    IF S = {} THEN {<<>>}
    ELSE UNION {{<<x>> \o p : p \in Perms(S \ {x})} : x \in S}

ListenLists == UNION {Perms(S) : S \in SUBSET Chan}

----------------------------------------------------------------------------
\* The Manager.

Edge(l, e, n) == [from |-> l, to |-> e, name |-> n]

\* The paths (sequences of committed edges) leading from cur to target.
RECURSIVE PathsFrom(_, _, _, _)
PathsFrom(g, cur, target, seen) ==
    IF cur = target THEN {<<>>}
    ELSE UNION {{<<e>> \o p : p \in PathsFrom(g, e.to, target, seen \cup {e.to})} :
                e \in {x \in g : x.from = cur /\ x.to \notin seen}}

\* The Cycle diagnostic: [name]L -> [prior]c -> ... -> L.
CyclePath(name, l, p) ==
    [hops |-> <<[name |-> name, chan |-> l]>> \o
              [i \in 1..Len(p) |-> [name |-> p[i].name, chan |-> p[i].from]],
     closes |-> l]

NoPath == [hops |-> <<>>, closes |-> ""]

prepare_construction(m, name) ==
    [m EXCEPT !.active = Append(@, [name |-> name, emits |-> {},
                                    listens |-> {}, edges |-> {}])]

\* The diagnostics of the proposed edges L -> E that close a cycle.
Failures(m, name, ls, es) ==
    UNION {{CyclePath(name, l, p) : p \in PathsFrom(m.graph, e, l, {e})} :
           <<l, e>> \in ls \X es}

\* A manager that commits every edge as soon as it has passed its check.
propose_edges_Eager(m, ls, es) ==
    LET top == Last(m.active)
        bad == Failures(m, top.name, ls, es)
    IN  IF bad = {}
        THEN {[ok |-> TRUE, path |-> NoPath,
               mgr |-> [m EXCEPT !.graph =
                           @ \cup {Edge(l, e, top.name) : <<l, e>> \in ls \X es}]]}
        ELSE {[ok |-> FALSE, path |-> p,
               mgr |-> [m EXCEPT !.active = Front(@)]] : p \in bad}

\* Proposes the edges ls x es in the current scope: the outcomes are the
\* manager with the edges recorded, or a Cycle error with the scope popped.
propose_edges(m, ls, es) ==
    LET top == Last(m.active)
        bad == Failures(m, top.name, ls, es)
    IN  IF bad = {}
        THEN {[ok |-> TRUE, path |-> NoPath,
               mgr |-> [m EXCEPT !.active[Len(m.active)].edges =
                           @ \cup {Edge(l, e, top.name) : <<l, e>> \in ls \X es}]]}
        ELSE {[ok |-> FALSE, path |-> p,
               mgr |-> [m EXCEPT !.active = Front(@)]] : p \in bad}

activate_channel(m, c) ==
    LET top == Last(m.active)
        m1 == [m EXCEPT !.active[Len(m.active)].emits = @ \cup {c}]
    IN  propose_edges(m1, top.listens, {c})

subscribe_channel(m, c) ==
    LET top == Last(m.active)
        m1 == [m EXCEPT !.active[Len(m.active)].listens = @ \cup {c}]
    IN  propose_edges(m1, {c}, top.emits)

finish_construction(m) ==
    [graph |-> m.graph \cup Last(m.active).edges, active |-> Front(m.active)]

----------------------------------------------------------------------------
\* Topic (topic.rs).

\* A Topic value: Topic(Shared<InternalTopic>) refers to the cell of channel
\* c; a value that owns a private InternalTopic holds its sequence in copy.
SharedTopic(c) == [chan |-> c, shared |-> TRUE, copy |-> <<>>]

OwnedTopic(c, s) == [chan |-> c, shared |-> FALSE, copy |-> s]

\* The subscriber sequence a Topic value reads (internal.subscribers).
TopicSubscribers(t) == IF t.shared THEN subscribers[t.chan] ELSE t.copy

NoTopic == SharedTopic("")

\* A clone that does not tell the manager.
clone_activate_Plain(m, c) ==
    {[ok |-> TRUE, path |-> NoPath, mgr |-> m, topic |-> SharedTopic(c)]}

\* A clone that copies the InternalTopic instead of sharing it.
clone_activate_Copy(m, c) ==
    {[ok |-> o.ok, path |-> o.path, mgr |-> o.mgr,
      topic |-> OwnedTopic(c, subscribers[c])] : o \in activate_channel(m, c)}

\* Topic::clone_activate: tells the manager that the scope under construction
\* may emit into c, and hands out Self(self.0.clone()), a Topic value referring
\* to the same cell.
clone_activate(m, c) ==
    {[ok |-> o.ok, path |-> o.path, mgr |-> o.mgr, topic |-> SharedTopic(c)] :
     o \in activate_channel(m, c)}

\* A push that does not tell the manager.
TopicSubscribe_PushOnly(m, subs, c, id) ==
    {[ok |-> TRUE, path |-> NoPath, mgr |-> m,
      subs |-> [subs EXCEPT ![c] = Append(@, id)]]}

\* A subscribe that puts the instance in front of the others.
TopicSubscribe_Front(m, subs, c, id) ==
    {[ok |-> o.ok, path |-> o.path, mgr |-> o.mgr,
      subs |-> IF o.ok THEN [subs EXCEPT ![c] = <<id>> \o @] ELSE subs] :
     o \in subscribe_channel(m, c)}

\* Topic::subscribe: tells the manager that the scope under construction
\* listens on c, then pushes the instance.
TopicSubscribe(m, subs, c, id) ==
    {[ok |-> o.ok, path |-> o.path, mgr |-> o.mgr,
      subs |-> IF o.ok THEN [subs EXCEPT ![c] = Append(@, id)] ELSE subs] :
     o \in subscribe_channel(m, c)}

\* Vec::drain_filter, dropped at once: the closure is called on the elements
\* from position i on, in turn; those it accepts are taken out.  acc holds
\* the elements kept and the calls made so far.
RECURSIVE drain_filter(_, _, _, _)
drain_filter(s, pred, i, acc) ==
    IF i > Len(s) THEN acc
    ELSE drain_filter(s, pred, i + 1,
            [subscribers |-> IF s[i] \in pred THEN acc.subscribers
                             ELSE Append(acc.subscribers, s[i]),
             calls |-> Append(acc.calls, s[i])])

\* A remove that keeps the elements the closure accepts (Vec::retain).
TopicRemove_Retain(s, pred) ==
    [subscribers |-> SelectSeq(s, LAMBDA x : x \in pred), calls |-> s]

\* Topic::remove: the subscribers left and the calls of the closure.
TopicRemove(s, pred) == drain_filter(s, pred, 1, [subscribers |-> <<>>, calls |-> <<>>])

\* An unregister that removes the first entry, whichever it is.
TopicUnregister_First(s, h) == Tail(s)

\* Channel.unregister: removes the entry that is the handle's instance.
TopicUnregister(s, h) == SelectSeq(s, LAMBDA x : x # h)

\* Inserts x into the sorted sequence t, after the elements that are not
\* greater than it (lt holds <<x, y>> when the comparator orders x before y).
RECURSIVE InsertSorted(_, _, _)
InsertSorted(t, x, lt) ==
    IF t = <<>> THEN <<x>>
    ELSE IF <<x, Head(t)>> \in lt THEN <<x>> \o t
    ELSE <<Head(t)>> \o InsertSorted(Tail(t), x, lt)

RECURSIVE SortFrom(_, _, _)
SortFrom(t, s, lt) ==
    IF s = <<>> THEN t ELSE SortFrom(InsertSorted(t, Head(s), lt), Tail(s), lt)

\* A reorder that leaves the sequence as it is.
TopicSortBy_Keep(s, lt) == s

\* Channel.reorder (sort_by): a stable sort of the sequence by the comparator.
TopicSortBy(s, lt) == SortFrom(<<>>, s, lt)

\* The comparator that orders the instances as the sequence cmp lists them.
RankOrder(cmp) ==
    {<<cmp[m[1]], cmp[m[2]]>> : m \in {n \in (DOMAIN cmp) \X (DOMAIN cmp) : n[1] < n[2]}}

\* A loop that skips every other subscriber.
NextVisit_Skip(idx) == idx + 2

\* Topic::emit, the loop: the position after the visitor returned from idx.
NextVisit(idx) == idx + 1

\* Topic::emit, the loop's start.
FirstVisit == 1

----------------------------------------------------------------------------
\* The generated code of lib.rs.

\* Every handler reports the same name.
name_Fixed(id) == HandlerNames[1]

\* Selfscriber::name: stringify!($on).
name(id) == HandlerNames[id]

\* A Node: its fields, one Topic value per declared emit channel.
NoNode == [c \in {} |-> NoTopic]

\* impl From<&Source> for Node: one internal clone per declared emit channel.
RECURSIVE NodeFrom(_, _)
NodeFrom(m, emits) ==
    IF emits = {} THEN {[ok |-> TRUE, path |-> NoPath, mgr |-> m, node |-> NoNode]}
    ELSE LET c == CHOOSE x \in emits : TRUE
         IN  UNION {IF o.ok
                    THEN {[r EXCEPT !.node =
                              [x \in DOMAIN r.node \cup {c} |->
                                  IF x = c THEN o.topic ELSE r.node[x]]] :
                          r \in NodeFrom(o.mgr, emits \ {c})}
                    ELSE {[ok |-> FALSE, path |-> o.path, mgr |-> o.mgr,
                           node |-> NoNode]} :
                    o \in clone_activate(m, c)}

\* A selfscribe that inserts into the first listened channel only.
selfscribe_FirstOnly(m, subs, id, listens) ==
    IF listens = <<>> THEN {[ok |-> TRUE, path |-> NoPath, mgr |-> m, subs |-> subs]}
    ELSE TopicSubscribe(m, subs, Head(listens), id)

\* Selfscriber::selfscribe: holder.listen.insert(item.clone()) for every
\* listened channel, in the order of declaration.
RECURSIVE selfscribe(_, _, _, _)
selfscribe(m, subs, id, listens) ==
    IF listens = <<>> THEN {[ok |-> TRUE, path |-> NoPath, mgr |-> m, subs |-> subs]}
    ELSE UNION {IF o.ok THEN selfscribe(o.mgr, o.subs, id, Tail(listens)) ELSE {o} :
                o \in TopicSubscribe(m, subs, Head(listens), id)}

----------------------------------------------------------------------------
\* The state machine.

\* The input () of a handler that takes none.
Unit == 0

\* No Manager (the identities of the Managers are 1, 2, ...).
NoManager == 0

NoResult ==
    [op |-> "none", ok |-> TRUE, err |-> "", id |-> 0, chan |-> "",
     listens |-> <<>>, emits |-> {}, path |-> NoPath, visited |-> <<>>,
     cmp |-> {}, matched |-> {}]

\* The state after the hubs h were constructed (Topic::new for every channel).
InitHub(h) ==
    /\ manager = h
    /\ subscribers = [c \in DOMAIN h |-> <<>>]
    /\ node = <<>>
    /\ value = <<>>
    /\ mgr = [graph |-> {}, active |-> <<>>]
    /\ stack = <<>>
    /\ nextId = 1
    /\ result = NoResult
    /\ unregistered = {}

Init == InitHub(HubDual)

IsBuild(f) == f.kind = "build"

IsEmit(f) == f.kind = "emit"

\* The instance an emit frame's visitor holds a mutable view of.
Visiting(f) == TopicSubscribers(f.topic)[f.idx]

BuildFrame(h, id, listens, emits, n, input) ==
    [kind |-> "build", hub |-> h, id |-> id, listens |-> listens, emits |-> emits,
     node |-> n, input |-> input, chan |-> "", topic |-> NoTopic, idx |-> 0, visited |-> <<>>]

EmitFrame(t) ==
    [kind |-> "emit", hub |-> manager[t.chan], id |-> 0, listens |-> <<>>, emits |-> {},
     node |-> NoNode, input |-> Unit, chan |-> t.chan, topic |-> t, idx |-> FirstVisit,
     visited |-> <<>>]

EmitResult(c, visited) ==
    [NoResult EXCEPT !.op = "emit", !.chan = c, !.visited = visited]

\* subscribe::<T>(input), lib.rs 393-397, on a hub or Node of the Manager h:
\* the scope is opened, the Node is derived and T::build is entered with the
\* Node and the input.
construct(h, listens, emits, input) ==
    /\ \E o \in NodeFrom(prepare_construction(mgr, name(nextId)), emits) :
          /\ o.ok
          /\ mgr' = o.mgr
          /\ stack' = Append(stack, BuildFrame(h, nextId, listens, emits, o.node,
                                               input))
    /\ nextId' = nextId + 1
    /\ UNCHANGED <<manager, subscribers, node, value, result, unregistered>>

\* hub.subscribe::<T>(input) called by the application: T's node! block
\* names channels of that hub.
subscribe(listens, emits, input) ==
    /\ stack = <<>>
    /\ \E h \in Hubs :
          /\ \A c \in Range(listens) \cup emits : manager[c] = h
          /\ construct(h, listens, emits, input)

\* x.subscribe::<T>(()) of a handler with type Input = ().
SubscribeBegin(listens, emits) ==
    /\ nextId <= MaxSubs
    /\ subscribe(listens, emits, Unit)

\* A subscribe that does not end its construction scope.
BuildReturn_NoFinish ==
    /\ stack # <<>>
    /\ IsBuild(Last(stack))
    /\ LET f == Last(stack)
       IN  /\ node' = [i \in DOMAIN node \cup {f.id} |->
                          IF i = f.id THEN f.node ELSE node[i]]
           /\ value' = [i \in DOMAIN value \cup {f.id} |->
                          IF i = f.id THEN f.input ELSE value[i]]
           /\ \E o \in selfscribe(mgr, subscribers, f.id, f.listens) :
                 /\ subscribers' = o.subs
                 /\ mgr' = o.mgr
                 /\ stack' = IF o.ok THEN Front(stack) ELSE <<>>
                 /\ result' = [NoResult EXCEPT !.op = "subscribe", !.ok = o.ok,
                                 !.err = IF o.ok THEN "" ELSE "Cycle",
                                 !.id = f.id, !.listens = f.listens,
                                 !.emits = f.emits, !.path = o.path]
    /\ UNCHANGED <<manager, nextId, unregistered>>

\* lib.rs 397-400: build returns the instance, which is registered into its
\* listened channels; finish_construction is reached unless a call panicked,
\* and a panic unwinds every subscribe that is under way.
BuildReturn ==
    /\ stack # <<>>
    /\ IsBuild(Last(stack))
    /\ LET f == Last(stack)
       IN  /\ node' = [i \in DOMAIN node \cup {f.id} |->
                          IF i = f.id THEN f.node ELSE node[i]]
           /\ value' = [i \in DOMAIN value \cup {f.id} |->
                          IF i = f.id THEN f.input ELSE value[i]]
           /\ \E o \in selfscribe(mgr, subscribers, f.id, f.listens) :
                 /\ subscribers' = o.subs
                 /\ mgr' = IF o.ok THEN finish_construction(o.mgr) ELSE o.mgr
                 /\ stack' = IF o.ok THEN Front(stack) ELSE <<>>
                 /\ result' = [NoResult EXCEPT !.op = "subscribe", !.ok = o.ok,
                                 !.err = IF o.ok THEN "" ELSE "Cycle",
                                 !.id = f.id, !.listens = f.listens,
                                 !.emits = f.emits, !.path = o.path]
    /\ UNCHANGED <<manager, nextId, unregistered>>

\* The Manager of the scope (construction or emit) that is executing; none
\* when the application is not inside a call into a hub.
ActiveManager == IF stack = <<>> THEN NoManager ELSE stack[1].hub

\* Manager.assert_active: the Manager h is the active one, or becomes it
\* because no scope is executing.
assert_active(h) == stack = <<>> \/ ActiveManager = h

\* The operation op on channel c failed the active-manager assertion.
Inactive(op, c, h) ==
    /\ result' = [NoResult EXCEPT !.op = op, !.chan = c, !.id = h,
                    !.ok = FALSE, !.err = "InactiveScope"]
    /\ UNCHANGED <<manager, subscribers, node, value, mgr, stack, nextId,
                   unregistered>>

\* An emit that does not call the manager.
EnterEmit_Unchecked(t) ==
    /\ Len(stack) < MaxDepth
    /\ IF TopicSubscribers(t) = <<>>
       THEN /\ result' = EmitResult(t.chan, <<>>)
            /\ UNCHANGED stack
       ELSE /\ stack' = Append(stack, EmitFrame(t))
            /\ UNCHANGED result
    /\ UNCHANGED <<manager, subscribers, node, value, mgr, nextId, unregistered>>

\* Topic::emit entered on the Topic value t from the frame on top of the
\* stack (or from the application when the stack is empty).
\* manager.emitting(name) (topic.rs:20) is the active-manager assertion.
EnterEmit(t) ==
    /\ Len(stack) < MaxDepth
    /\ IF ~assert_active(manager[t.chan])
       THEN Inactive("emit", t.chan, 0)
       ELSE /\ IF TopicSubscribers(t) = <<>>
               THEN /\ result' = EmitResult(t.chan, <<>>)
                    /\ UNCHANGED stack
               ELSE /\ stack' = Append(stack, EmitFrame(t))
                    /\ UNCHANGED result
            /\ UNCHANGED <<manager, subscribers, node, value, mgr, nextId,
                           unregistered>>

\* hub.c.emit(...) called by the application.
Emit(c) ==
    /\ stack = <<>>
    /\ EnterEmit(SharedTopic(c))

\* build emits through its Node (crate docs, Nested emitting).
BuildEmit(c) ==
    /\ stack # <<>>
    /\ IsBuild(Last(stack))
    /\ c \in DOMAIN Last(stack).node
    /\ EnterEmit(Last(stack).node[c])

\* The visited handler emits through a channel of its Node.
HandlerEmit(c) ==
    /\ stack # <<>>
    /\ IsEmit(Last(stack))
    /\ c \in DOMAIN node[Visiting(Last(stack))]
    /\ EnterEmit(node[Visiting(Last(stack))][c])

\* The visitor returns: the loop of Topic::emit moves on, and emit returns
\* after the last subscriber.
VisitReturn ==
    /\ stack # <<>>
    /\ IsEmit(Last(stack))
    /\ LET f == Last(stack)
           seen == Append(f.visited, Visiting(f))
           nxt == NextVisit(f.idx)
       IN  IF nxt > Len(TopicSubscribers(f.topic))
           THEN /\ stack' = Front(stack)
                /\ result' = EmitResult(f.chan, seen)
           ELSE /\ stack' = [stack EXCEPT ![Len(stack)] =
                                [f EXCEPT !.idx = nxt, !.visited = seen]]
                /\ UNCHANGED result
    /\ UNCHANGED <<manager, subscribers, node, value, mgr, nextId, unregistered>>

\* hub.c.remove(pred) called by the application.
\* A remove that also makes the manager forget the edges of the handlers it
\* took out.
remove_DropEdges(c, pred) ==
    /\ LET o == TopicRemove(subscribers[c], pred)
           gone == {HandlerNames[x] : x \in pred \cap Range(o.calls)}
       IN  /\ subscribers' = [subscribers EXCEPT ![c] = o.subscribers]
           /\ mgr' = [mgr EXCEPT !.graph = {e \in @ : e.name \notin gone}]
           /\ result' = [NoResult EXCEPT !.op = "remove", !.chan = c,
                           !.visited = o.calls,
                           !.matched = pred \cap Range(o.calls)]
    /\ UNCHANGED <<manager, node, value, stack, nextId, unregistered>>

remove(c, pred) ==
    IF ~assert_active(manager[c])
    THEN Inactive("remove", c, 0)
    ELSE /\ LET o == TopicRemove(subscribers[c], pred)
            IN  /\ subscribers' = [subscribers EXCEPT ![c] = o.subscribers]
                /\ result' = [NoResult EXCEPT !.op = "remove", !.chan = c,
                                !.visited = o.calls,
                                !.matched = pred \cap Range(o.calls)]
         /\ UNCHANGED <<manager, node, value, mgr, stack, nextId, unregistered>>

Remove(c, pred) ==
    /\ stack = <<>>
    /\ remove(c, pred)

\* An unregister that treats an absent handle as a silent no-op.
Unregister_Silent(c, h) ==
    /\ stack = <<>>
    /\ h < nextId
    /\ subscribers' = [subscribers EXCEPT ![c] = SelectSeq(@, LAMBDA x : x # h)]
    /\ unregistered' = unregistered \cup {<<c, h>>}
    /\ result' = [NoResult EXCEPT !.op = "unregister", !.chan = c, !.id = h]
    /\ UNCHANGED <<manager, node, value, mgr, stack, nextId>>

\* hub.c.unregister(h) called by the application with the handle of an
\* instance a subscription created.
unregister(c, h) ==
    IF ~assert_active(manager[c])
    THEN Inactive("unregister", c, h)
    ELSE /\ IF h \in Range(subscribers[c])
            THEN /\ subscribers' = [subscribers EXCEPT ![c] = TopicUnregister(@, h)]
                 /\ unregistered' = unregistered \cup {<<c, h>>}
                 /\ result' = [NoResult EXCEPT !.op = "unregister", !.chan = c,
                                 !.id = h]
            ELSE /\ result' = [NoResult EXCEPT !.op = "unregister", !.chan = c,
                                 !.id = h, !.ok = FALSE,
                                 !.err = "UnknownSubscription"]
                 /\ UNCHANGED <<subscribers, unregistered>>
         /\ UNCHANGED <<manager, node, value, mgr, stack, nextId>>

Unregister(c, h) ==
    /\ stack = <<>>
    /\ h < nextId
    /\ unregister(c, h)

\* hub.c.sort_by(cmp) called by the application.
sort_by(c, lt) ==
    /\ stack = <<>>
    /\ subscribers' = [subscribers EXCEPT ![c] = TopicSortBy(@, lt)]
    /\ result' = [NoResult EXCEPT !.op = "sort", !.chan = c,
                    !.cmp = lt \cap (Range(subscribers[c]) \X Range(subscribers[c]))]
    /\ UNCHANGED <<manager, node, value, mgr, stack, nextId, unregistered>>

\* hub.c.sort_by(...) with a comparator that ranks the instances as cmp does.
SortBy(c, cmp) == sort_by(c, RankOrder(cmp))

Next ==
    \/ \E ls \in ListenLists, es \in SUBSET Chan : SubscribeBegin(ls, es)
    \/ BuildReturn
    \/ \E c \in Chan : Emit(c)
    \/ \E c \in Chan : BuildEmit(c)
    \/ \E c \in Chan : HandlerEmit(c)
    \/ VisitReturn
    \/ \E c \in Chan, pred \in SUBSET Ids : Remove(c, pred)
    \/ \E c \in Chan, h \in Ids : Unregister(c, h)
    \/ \E c \in Chan, cmp \in Perms(Ids) : SortBy(c, cmp)

Spec == Init /\ [][Next]_vars

----------------------------------------------------------------------------
\* tests::sorting: hub! { X { a: A } }, Handler(i32) listening on a; the
\* application subscribes the values 0..9 in turn, sorts and emits.

HubSorting == [c \in {"a"} |-> 1]

\* for value in 0..10
SortingCount == 10

\* |a, b| a.value().cmp(&b.value()): the ascending order.
Ascending == {<<x, y>> \in (DOMAIN value) \X (DOMAIN value) : value[x] < value[y]}

\* |a, b| b.value().cmp(&a.value()), the comparator of the test.
Descending == {<<x, y>> \in (DOMAIN value) \X (DOMAIN value) : value[y] < value[x]}

InitSorting == InitHub(HubSorting)

\* x.subscribe::<Handler>(value)
SortingSubscribe ==
    /\ nextId <= SortingCount
    /\ subscribe(<<"a">>, {}, nextId - 1)

\* x.a.sort_by(|a, b| b.value().cmp(&a.value()))
SortingSortBy == sort_by("a", Descending)

NextSorting ==
    \/ SortingSubscribe
    \/ BuildReturn
    \/ SortingSortBy
    \/ Emit("a")
    \/ VisitReturn

SpecSorting == InitSorting /\ [][NextSorting]_vars

----------------------------------------------------------------------------
\* Two hubs: hub 1 with the channels a and b, hub 2 with the channel c.  The
\* code that runs inside a scope of one hub (the closure the application
\* passed to emit, a handler, or build with what its input captured) may hold
\* the other hub and call its channels.

HubTwo == [c \in {"a", "b", "c"} |-> IF c = "c" THEN 2 ELSE 1]

InitTwoHubs == InitHub(HubTwo)

\* A scope is executing and channel c belongs to another hub than it.
InForeignScope(c) == stack # <<>> /\ manager[c] # ActiveManager

\* Topic::subscribe called outside the generated subscribe: it needs the
\* active manager and an open construction scope to propose its edges in.
register(c, h) ==
    IF ~(assert_active(manager[c]) /\ mgr.active # <<>>)
    THEN Inactive("register", c, h)
    ELSE /\ \E o \in TopicSubscribe(mgr, subscribers, c, h) :
               /\ subscribers' = o.subs
               /\ mgr' = o.mgr
               /\ result' = [NoResult EXCEPT !.op = "register", !.chan = c,
                               !.id = h, !.ok = o.ok,
                               !.err = IF o.ok THEN "" ELSE "Cycle",
                               !.path = o.path]
         /\ UNCHANGED <<manager, node, value, stack, nextId, unregistered>>

ForeignEmit(c) ==
    /\ InForeignScope(c)
    /\ EnterEmit(SharedTopic(c))

ForeignRemove(c, pred) ==
    /\ InForeignScope(c)
    /\ remove(c, pred)

ForeignUnregister(c, h) ==
    /\ InForeignScope(c)
    /\ h < nextId
    /\ unregister(c, h)

ForeignRegister(c, h) ==
    /\ InForeignScope(c)
    /\ h < nextId
    /\ h \in DOMAIN node
    /\ register(c, h)

NextTwoHubs ==
    \/ \E ls \in ListenLists, es \in SUBSET Chan : SubscribeBegin(ls, es)
    \/ BuildReturn
    \/ \E c \in Chan : Emit(c)
    \/ \E c \in Chan : BuildEmit(c)
    \/ \E c \in Chan : HandlerEmit(c)
    \/ VisitReturn
    \/ \E c \in Chan : ForeignEmit(c)
    \/ \E c \in Chan, pred \in SUBSET Ids : ForeignRemove(c, pred)
    \/ \E c \in Chan, h \in Ids : ForeignUnregister(c, h)
    \/ \E c \in Chan, h \in Ids : ForeignRegister(c, h)

SpecTwoHubs == InitTwoHubs /\ [][NextTwoHubs]_vars

----------------------------------------------------------------------------
\* Nested subscriptions: node! { OuterNode { ... } => InnerNode(Inner) { ... } }
\* generates subscribe for OuterNode too, so the build of a handler can
\* subscribe handlers whose listen and emit channels are fields of its Node.

NodeSubscribe(listens, emits) ==
    /\ stack # <<>>
    /\ IsBuild(Last(stack))
    /\ Len(stack) < MaxDepth
    /\ nextId <= MaxSubs
    /\ Range(listens) \cup emits \subseteq DOMAIN Last(stack).node
    /\ construct(Last(stack).hub, listens, emits, Unit)

NextNested ==
    \/ \E ls \in ListenLists, es \in SUBSET Chan : SubscribeBegin(ls, es)
    \/ \E ls \in ListenLists, es \in SUBSET Chan : NodeSubscribe(ls, es)
    \/ BuildReturn

SpecNested == Init /\ [][NextNested]_vars

----------------------------------------------------------------------------
\* Vocabulary of the properties.

\* The committed permission graph as a relation over channels.
Rel(g) == {<<e.from, e.to>> : e \in g}

\* A finite relation has a cycle iff some non-empty set of nodes is closed
\* under "has a successor in the set".
Cyclic(R) ==
    \E S \in (SUBSET Chan) \ {{}} : \A x \in S : \E y \in S : <<x, y>> \in R

\* The channels reachable from the set S along R (S itself included).
RECURSIVE Grow(_, _)
Grow(R, S) ==
    LET T == S \cup {y \in Chan : \E x \in S : <<x, y>> \in R}
    IN  IF T = S THEN S ELSE Grow(R, T)

Reachable(R, x, y) == y \in Grow(R, {x})

EmitFrames == {i \in DOMAIN stack : IsEmit(stack[i])}

\* A top-level subscription is under way: its build frame is on the stack.
InSubscription == stack # <<>> /\ IsBuild(stack[1])

SubscribeDone == result.op = "subscribe"

SubscribeRejected == result.op = "subscribe" /\ ~result.ok

SubscribeAccepted == result.op = "subscribe" /\ result.ok

\* The edges a subscription declares: listen-set x emit-set, under its name.
DeclaredEdges(r) ==
    {Edge(l, e, HandlerNames[r.id]) : <<l, e>> \in Range(r.listens) \X r.emits}

----------------------------------------------------------------------------
\* C1: the committed permission graph never contains a directed cycle (a
\* self-loop included), and it holds the edges listen-set x emit-set of the
\* subscriber that was just accepted.
C1_Acyclic ==
    /\ ~Cyclic(Rel(mgr.graph))
    /\ SubscribeAccepted => DeclaredEdges(result) \subseteq mgr.graph

\* C1 witness: the second subscriber was accepted and the committed graph
\* holds edges of two subscriptions.
C1_Witness ==
    /\ Cardinality(mgr.graph) >= 2
    /\ SubscribeAccepted
    /\ result.id = 2

\* C2: a subscription is rejected with a Cycle error exactly when some emit
\* channel E of it already reaches one of its listened channels L in the
\* committed graph, which is exactly when committing all of Ls x Es would
\* make the graph cyclic.
C2_RejectedIffCycle ==
    [][(InSubscription /\ stack' = <<>>) =>
         LET f == stack[1]
             Ls == Range(f.listens)
             R == Rel(mgr.graph)
         IN  /\ ~result'.ok <=>
                   \E l \in Ls, e \in f.emits : Reachable(R, e, l)
             /\ ~result'.ok <=> Cyclic(R \cup (Ls \X f.emits))
             /\ ~result'.ok <=> result'.err = "Cycle"]_vars

\* C2 witness: a subscription without a self-loop was rejected because of
\* the edges of an earlier subscriber.
C2_Witness ==
    /\ SubscribeRejected
    /\ Range(result.listens) \cap result.emits = {}

\* C3 (as claimed): no instance is visited while it is already being visited
\* further up the dispatch stack.
C3_NoDoubleVisit ==
    \A i, j \in EmitFrames : i # j => Visiting(stack[i]) # Visiting(stack[j])

\* C4 (as claimed): after a rejected subscription the handler factory has
\* not run (no instance exists) and the instance is in no channel.
C4_RejectedLeavesNoInstance ==
    SubscribeRejected =>
        /\ result.id \notin DOMAIN node
        /\ \A c \in Chan : result.id \notin Range(subscribers[c])

\* C5: no step of a subscription that ends rejected changes the committed
\* graph (only the step that accepts a subscription does), none of the
\* proposed edges is in the graph afterwards, and the scope is popped.
C5_RejectedKeepsGraph ==
    [][/\ ((InSubscription \/ InSubscription') /\
           ~(InSubscription /\ stack' = <<>> /\ result'.ok))
          => mgr'.graph = mgr.graph
       /\ (InSubscription /\ stack' = <<>> /\ ~result'.ok)
          => /\ mgr'.active = <<>>
             /\ DeclaredEdges(result') \cap mgr'.graph = {}]_vars

\* C5 witness: a rejected subscription whose first listened channel passed
\* its checks (the instance was pushed there) before a later one failed.
C5_Witness ==
    /\ SubscribeRejected
    /\ Len(result.listens) = 2
    /\ result.emits # {}
    /\ result.id \in Range(subscribers[result.listens[1]])

\* The channel a hop of the diagnostic leads to.
HopTarget(p, i) == IF i < Len(p.hops) THEN p.hops[i + 1].chan ELSE p.closes

FrameOk(f) ==
    /\ f.idx \in 1..Len(subscribers[f.chan])
    /\ f.visited = SubSeq(subscribers[f.chan], 1, f.idx - 1)

FramesOk == \A i \in EmitFrames : FrameOk(stack[i])

\* A step of some emit call: it is entered, its visitor returns, or it
\* returns.
EmitStep ==
    \/ stack # <<>> /\ IsEmit(Last(stack)) /\ Len(stack') <= Len(stack)
    \/ Len(stack') > Len(stack) /\ IsEmit(Last(stack'))
    \/ stack' = stack /\ result'.op = "emit" /\ result' # result

\* C8: one emit call visits every subscriber registered when it starts
\* exactly once, in the order of the sequence, and nothing else; no step of
\* it changes a subscriber sequence.
C8_EmitVisitsAll ==
    [][EmitStep =>
         /\ subscribers' = subscribers
         /\ FramesOk'
         /\ Len(stack') < Len(stack) =>
               /\ result'.op = "emit"
               /\ result'.chan = Last(stack).chan
               /\ result'.visited = subscribers[Last(stack).chan]
         /\ (stack' = stack) =>
               /\ subscribers[result'.chan] = <<>>
               /\ result'.visited = <<>>]_vars

\* C8 witness: an emit has returned after visiting two subscribers.
C8_Witness ==
    /\ result.op = "emit"
    /\ Len(result.visited) = 2
    /\ stack = <<>>

\* The position of x in the duplicate-free sequence s.
Pos(s, x) == CHOOSE i \in 1..Len(s) : s[i] = x

\* t holds the elements of s other than h, each once, in the order of s.
RemovedOnly(s, t, h) ==
    /\ Range(t) = Range(s) \ {h}
    /\ Len(t) = Cardinality(Range(t))
    /\ \A x, y \in Range(t) : Pos(t, x) < Pos(t, y) => Pos(s, x) < Pos(s, y)

\* What holds of every handle unregister removed from a channel.
UnregisteredGone ==
    \A u \in unregistered :
        /\ u[2] \notin Range(subscribers[u[1]])
        /\ \A i \in EmitFrames :
              stack[i].chan = u[1] =>
                 /\ Visiting(stack[i]) # u[2]
                 /\ u[2] \notin Range(stack[i].visited)
        /\ (result.op = "emit" /\ result.chan = u[1]) =>
              /\ u[2] \notin Range(result.visited)
              /\ result.visited = subscribers[u[1]]

\* C9: a successful unregister(h) removes h and nothing else from the
\* channel; from then on h is never again in that channel's sequence, no
\* emit on the channel visits it, and an emit on the channel still visits
\* all the subscribers that are in it.
C9_UnregisteredNeverVisited ==
    [][/\ UnregisteredGone'
       /\ (stack = <<>> /\ stack' = <<>> /\ result'.op = "unregister" /\ result'.ok)
          => /\ <<result'.chan, result'.id>> \in unregistered'
             /\ RemovedOnly(subscribers[result'.chan], subscribers'[result'.chan],
                            result'.id)
             /\ \A c \in Chan \ {result'.chan} : subscribers'[c] = subscribers[c]]_vars

\* C9 witness: after an unregister on a channel, an emit on that channel has
\* visited a remaining subscriber.
C9_Witness ==
    \E u \in unregistered :
        /\ result.op = "emit"
        /\ result.chan = u[1]
        /\ result.visited # <<>>

\* C10: unregister succeeds exactly when the handle is in the channel;
\* otherwise it fails with UnknownSubscription and changes neither a
\* subscriber sequence nor the manager.
C10_UnknownSubscription ==
    [][(stack = <<>> /\ stack' = <<>> /\ result'.op = "unregister") =>
         /\ result'.ok <=> result'.id \in Range(subscribers[result'.chan])
         /\ ~result'.ok =>
               /\ result'.err = "UnknownSubscription"
               /\ subscribers' = subscribers
               /\ mgr' = mgr]_vars

\* C10 witness: a handle that was unregistered from a channel has been
\* unregistered from it a second time, and that failed.
C10_Witness ==
    /\ result.op = "unregister"
    /\ ~result.ok
    /\ <<result.chan, result.id>> \in unregistered

\* The values carried by the instances of the sequence s, in its order.
Values(s) == [i \in 1..Len(s) |-> value[s[i]]]

\* t holds the elements of s, each as often as s does.
IsPermutation(s, t) ==
    /\ Len(t) = Len(s)
    /\ \A x \in Range(s) \cup Range(t) :
          Cardinality({i \in 1..Len(s) : s[i] = x}) =
          Cardinality({i \in 1..Len(t) : t[i] = x})

\* A step of sort_by made by the application.
SortStep == stack = <<>> /\ stack' = <<>> /\ result'.op = "sort" /\ result' # result

\* C11: sort_by leaves the channel holding a permutation of its previous
\* sequence in which no subscriber stands before one the comparator orders
\* before it; every other step keeps the sequence as a prefix of the next
\* one, and an emit visits the subscribers in the order of the sequence; the
\* ten subscribers carrying 0..9, sorted by the descending comparator, stand
\* (and are visited) in the order 9, 8, ..., 0.
C11_SortedOrder ==
    [][/\ SortStep =>
             LET s == subscribers[result'.chan]
                 t == subscribers'[result'.chan]
             IN  /\ IsPermutation(s, t)
                 /\ \A i, j \in 1..Len(t) : i < j => <<t[j], t[i]>> \notin result'.cmp
                 /\ \A i, j \in 1..Len(t) : i < j => value[t[i]] > value[t[j]]
                 /\ Len(s) = SortingCount =>
                       Values(t) = [i \in 1..SortingCount |-> SortingCount - i]
       /\ ~SortStep =>
             \A c \in Chan :
                 /\ Len(subscribers[c]) <= Len(subscribers'[c])
                 /\ subscribers[c] = SubSeq(subscribers'[c], 1, Len(subscribers[c]))
       /\ (stack # <<>> /\ IsEmit(Last(stack)) /\ Len(stack') < Len(stack)) =>
             /\ result'.op = "emit"
             /\ result'.visited = subscribers[result'.chan]]_vars

\* C11 witness: after the ten subscribers carrying 0..9 were sorted, an emit
\* has visited them in the order 9, 8, ..., 0.
C11_Witness ==
    /\ result.op = "emit"
    /\ Len(result.visited) = SortingCount
    /\ Values(result.visited) = [i \in 1..SortingCount |-> SortingCount - i]

\* A step of remove made by the application.
RemoveStep == stack = <<>> /\ stack' = <<>> /\ result'.op = "remove" /\ result' # result

\* C12: remove applies the predicate once to every subscriber of the channel,
\* in the order of the sequence, takes out exactly those it returned true
\* for and keeps the others in their previous relative order; no other
\* channel changes.
C12_RemoveWhere ==
    [][RemoveStep =>
         LET s == subscribers[result'.chan]
             t == subscribers'[result'.chan]
         IN  /\ result'.visited = s
             /\ result'.matched \subseteq Range(s)
             /\ Range(t) = Range(s) \ result'.matched
             /\ Len(t) = Cardinality(Range(t))
             /\ \A x, y \in Range(t) : Pos(t, x) < Pos(t, y) => Pos(s, x) < Pos(s, y)
             /\ \A c \in Chan \ {result'.chan} : subscribers'[c] = subscribers[c]]_vars

\* C12 witness: a remove has called the predicate on two subscribers, taken
\* one out and kept the other.
C12_Witness ==
    /\ result.op = "remove"
    /\ Len(result.visited) = 2
    /\ Cardinality(result.matched) = 1
    /\ Len(subscribers[result.chan]) = 1

\* The Topic values that exist: the fields of the Nodes the handlers hold,
\* those of the Nodes passed to a running build, and the ones being emitted
\* through.
TopicValues ==
    UNION {Fields(node[i]) : i \in DOMAIN node}
    \cup UNION {Fields(stack[i].node) : i \in DOMAIN stack}
    \cup {stack[i].topic : i \in EmitFrames}

FramesOwned == \A i \in EmitFrames : manager[stack[i].chan] = ActiveManager

\* A channel operation has returned to code running inside a scope.
InScopeReturn ==
    /\ stack # <<>>
    /\ result' # result
    /\ result'.op \in {"emit", "register", "unregister", "remove"}

\* C14: with two hubs, an emit, register, unregister or remove on a channel
\* of one hub, called while the manager of the other hub is the active
\* one, fails with InactiveScope and leaves the channels of both hubs, the
\* permission graphs and the dispatch stack as they were; no dispatch ever
\* runs on a channel of a hub whose manager is not the active one.
C14_InactiveScope ==
    [][/\ FramesOwned'
       /\ (InScopeReturn /\ manager[result'.chan] # ActiveManager) =>
             /\ ~result'.ok
             /\ result'.err = "InactiveScope"
             /\ subscribers' = subscribers
             /\ mgr' = mgr
             /\ stack' = stack
       /\ (result'.err = "InactiveScope" /\ result' # result) =>
             /\ manager[result'.chan] # ActiveManager
             /\ subscribers' = subscribers
             /\ mgr' = mgr]_vars

\* C14 witness: inside an emit scope of one hub, an unregister of a handle
\* that is in a channel of the other hub has failed with InactiveScope.
C14_Witness ==
    /\ stack # <<>>
    /\ IsEmit(stack[1])
    /\ result.op = "unregister"
    /\ result.err = "InactiveScope"
    /\ result.id \in Range(subscribers[result.chan])

\* C15 (as claimed): build runs only after the edges of its subscription
\* were committed and its construction scope was ended.
C15_FactoryAfterCommit ==
    \A i \in DOMAIN stack :
        IsBuild(stack[i]) =>
            /\ mgr.active = <<>>
            /\ DeclaredEdges(stack[i]) \subseteq mgr.graph

\* C16: the committed graph only grows, and it changes only in the step
\* that accepts a subscription, by that subscription's edges; emit, remove,
\* unregister, sort_by and the derivation of a Node leave it as it is, so a
\* subscription whose emit channel reaches one of its listened channels is
\* rejected whether or not the handlers on that path are still registered.
C16_GraphOnlyGrows ==
    [][/\ mgr.graph \subseteq mgr'.graph
       /\ mgr'.graph # mgr.graph =>
             /\ InSubscription
             /\ stack' = <<>>
             /\ result'.op = "subscribe"
             /\ result'.ok
             /\ mgr'.graph = mgr.graph \cup DeclaredEdges(result')
       /\ (InSubscription /\ stack' = <<>>
           /\ \E l \in Range(stack[1].listens), e \in stack[1].emits :
                  Reachable(Rel(mgr.graph), e, l))
          => ~result'.ok]_vars

\* C16 witness: a subscription was rejected with a path through the edges of
\* a handler that is no longer in any channel.
C16_Witness ==
    /\ SubscribeRejected
    /\ \E i \in 2..Len(result.path.hops), h \in DOMAIN node :
          /\ result.path.hops[i].name = HandlerNames[h]
          /\ \A c \in Chan : h \notin Range(subscribers[c])

\* C17: the step that accepts a subscription appends the new instance, which
\* was in no channel before, to each of its listened channels and leaves
\* every other channel as it was.
C17_RegisteredInListened ==
    [][(InSubscription /\ stack' = <<>> /\ result'.ok) =>
         /\ result'.op = "subscribe"
         /\ result'.id = stack[1].id
         /\ \A c \in Chan :
               /\ stack[1].id \notin Range(subscribers[c])
               /\ subscribers'[c] =
                     IF c \in Range(stack[1].listens)
                     THEN Append(subscribers[c], stack[1].id)
                     ELSE subscribers[c]]_vars

\* C17 witness: an accepted subscriber listening on one of the two channels
\* stands last in it, behind an earlier subscriber.
C17_Witness ==
    /\ SubscribeAccepted
    /\ Len(result.listens) = 1
    /\ Len(subscribers[result.listens[1]]) >= 2
    /\ Last(subscribers[result.listens[1]]) = result.id

\* C18 (as claimed): the nested dispatches are never more than the hub has
\* channels, and no channel is being dispatched twice at once.
C18_BoundedDispatch ==
    /\ Cardinality(EmitFrames) <= Cardinality(Chan)
    /\ \A i, j \in EmitFrames : i # j => stack[i].chan # stack[j].chan

\* C20 (as claimed): when a handler that is being visited on a channel L
\* emits into a channel E, the edge from L to E is in the committed graph.
C20_GraphCoversDispatch ==
    \A i \in EmitFrames :
        (i > 1 /\ IsEmit(stack[i - 1])) =>
            <<stack[i - 1].chan, stack[i].chan>> \in Rel(mgr.graph)

\* The edges checked so far in the construction scopes that are open.
OpenEdges == UNION {mgr.active[i].edges : i \in DOMAIN mgr.active}

\* C19: when builds subscribe further handlers through their Nodes, the
\* committed graph, also together with the edges recorded in the open
\* scopes, is acyclic at every moment, and a subscription that was accepted,
\* nested or not, has all its edges committed: an inner and an outer
\* subscription whose edges form a cycle are never both committed.
C19_NestedAcyclic ==
    /\ ~Cyclic(Rel(mgr.graph \cup OpenEdges))
    /\ SubscribeAccepted => DeclaredEdges(result) \subseteq mgr.graph
    /\ SubscribeRejected => ~(DeclaredEdges(result) \subseteq mgr.graph)

\* C19 witness: both scopes have ended; the inner subscription, made by the
\* outer build, was committed, and the outer one, whose edges close a cycle
\* with the inner edges, was rejected.
C19_Witness ==
    /\ stack = <<>>
    /\ SubscribeRejected
    /\ \E e \in mgr.graph, i \in DOMAIN node :
          /\ i > result.id
          /\ e.name = HandlerNames[i]
          /\ \E l \in Range(result.listens) :
                /\ e.from \in result.emits
                /\ e.to = l
                /\ e.from # l

====
